---- MODULE Spec2Model ----
(***************************************************************************)
(* Model of the ttd tracking daemon (src/bin/daemon.rs) and of the         *)
(* blocking command socket it serves (src/socket.rs).                      *)
(*                                                                         *)
(* Threads of the daemon process:                                          *)
(*   main    TimeLog::init, Daemon::run set-up, rx.recv(), shutdown        *)
(*   signal  forwards termination signals into the mpsc channel            *)
(*   server  loop { server.handle(closure) }: the only thread that accepts *)
(*           connections and runs Daemon::handle_msg                       *)
(*   presence  loop { activity_client.receive(closure) }: stores           *)
(*           last_active on every message of the presence daemon           *)
(* (a fifth thread reads last_active once a second and only logs)          *)
(* The environment: clients of the command socket, the wall clock, the     *)
(* file system holding the time log, the sender of termination signals.    *)
(*                                                                         *)
(* Beside the daemon: the Stats command of the cli (src/bin/cli.rs), one   *)
(* pass over the events of a log; the time log as text, written by         *)
(* TimeLog::log and read back by ActivityRead::read (src/lib.rs); and the  *)
(* presence socket byte by byte, written by actived's handle_client        *)
(* (src/bin/actived.rs) and read by SocketClient::receive.                 *)
(***************************************************************************)
EXTENDS Integers, Sequences, FiniteSets, TLC

\* ------------------------------------------------------------------ bounds
MaxTime == 1        \* the clock shows 0..MaxTime
MaxReq == 2         \* frames sent by all clients together
MaxPres == 1        \* presence frames written and not yet read by the daemon
MaxEvents == 4      \* events of the log the cli's Stats command reads
MaxStamp == 3       \* their timestamps are 0..MaxStamp
MaxLines == 2       \* lines of the time log file read back as text
MaxFrames == 2      \* frames actived writes to the presence socket
MaxInput == 4       \* actived's last_input is 0..MaxInput

\* ------------------------------------------------------------- environment
Clients == {"c1", "c2"}
NoClient == "nobody"

\* Config.activities: the catalog; Activities: every valid identifier a client may name
Catalog == {"work", "break"}
Activities == Catalog \cup {"nap"}

\* Option<Activity>
None == <<>>
Some(a) == <<a>>
OptActivity == {None} \cup {Some(a) : a \in Activities}

\* Result<T>: Ok(v) or an error
Ok(v) == [ok |-> TRUE, val |-> v]
Err == [ok |-> FALSE, val |-> <<>>]

\* ------------------------------------------------------------------- events
\* enum Event { Power(bool), SwitchActivity(Option<Activity>) }
Power(on) == [kind |-> "P", on |-> on, act |-> None]
SwitchActivity(o) == [kind |-> "A", on |-> FALSE, act |-> o]
PowerOn == Power(TRUE)
PowerOff == Power(FALSE)

\* one line of the time log: "{timestamp} {event}\n"
Line(t, ev) == [t |-> t, ev |-> ev]

\* ----------------------------------------------------------------- messages
\* enum IpcMessage { List, Switch(Option<Activity>), Status } as the daemon decodes it
MsgList == [tag |-> "List", arg |-> None]
MsgStatus == [tag |-> "Status", arg |-> None]
MsgSwitch(o) == [tag |-> "Switch", arg |-> o]
IpcMessage == {MsgList, MsgStatus} \cup {MsgSwitch(o) : o \in OptActivity}

\* What a client can put on the wire, delimited by EOT: the base64 of an encoded
\* IpcMessage, valid base64 of bytes that are no IpcMessage, or bytes that are no base64.
BadMsg == [tag |-> "BadMsg", arg |-> None]
BadB64 == [tag |-> "BadB64", arg |-> None]
Frames == IpcMessage \cup {BadMsg, BadB64}

\* the server thread has no message in hand
NoReq == [tag |-> "none", arg |-> None]

\* STANDARD_NO_PAD.decode(&msg): fails on bytes that are no base64
B64DecodeOk(frame) == frame # BadB64
\* rmp_serde::from_read(msg).ok(): None on bytes that are no IpcMessage
RmpDecodeUnchecked(frame) == TRUE
RmpDecodeOk(frame) == frame \in IpcMessage

\* ---------------------------------------------------------------- responses
\* The closure's Option<Vec<u8>>: None is answered by a lone EOT (an empty response).
RespEmpty == [tag |-> "Empty", act |-> None, dur |-> 0, list |-> {}]
RespList(l) == [tag |-> "List", act |-> None, dur |-> 0, list |-> l]
RespStatus(a, d) == [tag |-> "Status", act |-> a, dur |-> d, list |-> {}]

\* ----------------------------------------------------------- presence frames
\* What the presence thread reads up to an EOT: the base64 of a message carrying
\* last_active = t, nothing at all (a lone EOT), or bytes that are no base64.
PresActivity(t) == [tag |-> "Activity", t |-> t]
PresEmpty == [tag |-> "Empty", t |-> 0]
PresBadB64 == [tag |-> "BadB64", t |-> 0]
\* the presence thread has read no frame yet
NoPres == [tag |-> "none", t |-> 0]

VARIABLES
    clock,      \* the last reading of SystemTime::now() the process made, in seconds
    time_log,   \* the lines this run appended to the time log file
    daemon,     \* Mutex<Option<Daemon>>: "Some" until shutdown takes it, then "None"
    current,    \* Daemon.current
    since,      \* Daemon.since
    lock,       \* holder of the daemon mutex: "free", "server", "main"
    poisoned,   \* the mutex is poisoned: a thread panicked holding it
    mpc,        \* main thread: where it is, or how the process ended
    spc,        \* server thread: where it is
    scur,       \* server thread: the connection whose stream it reads
    req,        \* server thread: the decoded message in hand
    rsp,        \* server thread: the response handle_msg returned
    sigs,       \* a termination signal is pending: raised, not yet seen by the signal thread
    chan,       \* the mpsc channel (tx -> rx) holds a message
    sigClosed,  \* handle.close() was called
    sockFile,   \* the socket file exists
    backlog,    \* connections waiting in the listener's accept queue
    conn,       \* per client: "none", "open", "closed" (the server dropped its stream)
    sent,       \* per client: the frames written to the connection, in order
    nread,      \* per client: how many of them the server has read
    eof,        \* per client: the client shut down its writing half
    resp,       \* per client: the responses received, in order
    last_active,\* the AtomicU64 last_active, in seconds
    pin,        \* presence frames written to the presence socket, not yet read
    pmsg,       \* presence thread: the last frame it read
    started,    \* history: what the clock showed when Daemon::new ran
    events,     \* cli Stats: the events of the log read so far, in file order
    start,      \* cli Stats: the window is start..end, bounds included
    end,
    prev,       \* cli Stats: Option<Activity>
    prev_time,  \* cli Stats: Option<i64>
    totals,     \* cli Stats: BTreeMap<Activity, i64>
    printed,    \* cli Stats: the interval lines printed, in order
    log_lines,  \* the text of a time log file, line by line, each a string of characters
    log_events, \* history: per line, the TimedEvent it was formatted from
    replay,     \* what ActivityRead::read last returned on that file
    stream,     \* presence socket: the bytes actived wrote that the daemon has not read
    written,    \* history: the payloads actived wrote, in order
    handled,    \* the payloads SocketClient::receive handed to its closure, in order
    hup         \* actived closed its end of the presence socket

vars == <<clock, time_log, daemon, current, since, lock, poisoned, mpc, spc,
          scur, req, rsp, sigs, chan, sigClosed, sockFile, backlog, conn, sent,
          nread, eof, resp, last_active, pin, pmsg, started, events, start, end,
          prev, prev_time, totals, printed, log_lines, log_events, replay,
          stream, written, handled, hup>>

dstate == <<time_log, daemon, current, since>>
mutex == <<lock, poisoned>>
sthread == <<spc, scur, req, rsp>>
signals == <<sigs, chan, sigClosed>>
clients == <<backlog, conn, sent, nread, eof, resp>>
presence == <<last_active, pin, pmsg>>
stats == <<events, start, end, prev, prev_time, totals, printed>>
logtext == <<log_lines, log_events, replay>>
wire == <<stream, written, handled, hup>>

\* The wall clock never runs backwards: what a later reading of it can show
Times == 0..MaxTime
Later == clock..MaxTime

\* The process is alive while main has neither returned nor panicked.
Running == mpc \in {"init", "setup", "recv", "lock", "take", "return"}

\* BTreeMap::new()
NoTotals == [a \in {} |-> 0]

\* the cli's Stats command has read nothing yet
StatsFresh ==
    /\ events = <<>>
    /\ prev = None
    /\ prev_time = None
    /\ totals = NoTotals
    /\ printed = <<>>

\* no time log file has been written or read as text
TextFresh ==
    /\ log_lines = <<>>
    /\ log_events = <<>>
    /\ replay = None

\* the presence socket right after SocketClient::connect
WireFresh ==
    /\ stream = <<>>
    /\ written = <<>>
    /\ handled = <<>>
    /\ hup = FALSE

\* the daemon before main runs
DaemonFresh ==
    /\ clock = 0
    /\ time_log = <<>>
    /\ daemon = "Some"
    /\ current = None
    /\ since = 0
    /\ lock = "free"
    /\ poisoned = FALSE
    /\ mpc = "init"
    /\ spc = "none"
    /\ scur = NoClient
    /\ req = NoReq
    /\ rsp = RespEmpty
    /\ sigs = FALSE
    /\ chan = FALSE
    /\ sigClosed = FALSE
    /\ sockFile = FALSE
    /\ backlog = <<>>
    /\ conn = [c \in Clients |-> "none"]
    /\ sent = [c \in Clients |-> <<>>]
    /\ nread = [c \in Clients |-> 0]
    /\ eof = [c \in Clients |-> FALSE]
    /\ resp = [c \in Clients |-> <<>>]
    /\ last_active = 0
    /\ pin = 0
    /\ pmsg = NoPres
    /\ started = 0

Init ==
    /\ DaemonFresh
    /\ StatsFresh
    /\ TextFresh
    /\ WireFresh
    /\ start = 0
    /\ end = 0

\* --------------------------------------------------------------- the time log
\* TimeLog::log: stamp the event with the current time and append one line
TimeLog_log(file, event, now) == Append(file, Line(now, event))

\* Drop for TimeLog: log(Event::Power(false))
TimeLog_drop(file, now) == TimeLog_log(file, PowerOff, now)

\* ------------------------------------------------------------ the state machine
\* What handle_msg leaves behind: the daemon's fields, the response, whether it
\* panicked, and the last reading of the clock it made (0 when it made none).
OutcomeSinceRead(cur, snc, file, r, p, t) ==
    [current |-> cur, since |-> t, file |-> file, ret |-> r, panic |-> p, time |-> t]
Outcome(cur, snc, file, r, p, t) ==
    [current |-> cur, since |-> snc, file |-> file, ret |-> r, panic |-> p, time |-> t]

\* `if new != self.current`
new_differs_always(new, cur) == TRUE
new_differs_stale(new, cur) == new # None
new_differs(new, cur) == new # cur

\* `self.config.activities.iter().any(|a| *a == new_activity)`
in_catalog_any(a) == TRUE
in_catalog(a) == \E x \in Catalog : x = a

\* The Some branch of a switch: log the event (stamped now), then set current and
\* since (now2, a later reading of the clock). disk: whether the write to the log
\* file succeeds; .unwrap() panics when it does not, before anything is assigned.
switch_some_keeps_since(cur, snc, file, a, now, now2, disk) ==
    IF disk
    THEN Outcome(Some(a), snc, TimeLog_log(file, SwitchActivity(Some(a)), now),
                 RespEmpty, FALSE, now2)
    ELSE Outcome(cur, snc, file, RespEmpty, TRUE, now)
switch_some_unassigned(cur, snc, file, a, now, now2, disk) ==
    IF disk
    THEN Outcome(cur, now2, TimeLog_log(file, SwitchActivity(Some(a)), now),
                 RespEmpty, FALSE, now2)
    ELSE Outcome(cur, snc, file, RespEmpty, TRUE, now)
switch_some(cur, snc, file, a, now, now2, disk) ==
    IF disk
    THEN Outcome(Some(a), now2, TimeLog_log(file, SwitchActivity(Some(a)), now),
                 RespEmpty, FALSE, now2)
    ELSE Outcome(cur, snc, file, RespEmpty, TRUE, now)

\* The None branch of a switch: the same with SwitchActivity(None)
switch_none_unlogged(cur, snc, file, now, now2, disk) ==
    Outcome(None, now2, file, RespEmpty, FALSE, now2)
switch_none(cur, snc, file, now, now2, disk) ==
    IF disk
    THEN Outcome(None, now2, TimeLog_log(file, SwitchActivity(None), now),
                 RespEmpty, FALSE, now2)
    ELSE Outcome(cur, snc, file, RespEmpty, TRUE, now)

\* Daemon::handle_msg on the daemon (cur, snc, file). now: what SystemTime::now()
\* shows when the log line is stamped or the elapsed time is taken; now2: what it
\* shows at the later `self.since = SystemTime::now()`. A Switch returns None, which
\* the server answers with an empty response.
handle_msg(cur, snc, file, msg, now, now2, disk) ==
    CASE msg.tag = "List" -> Outcome(cur, snc, file, RespList(Catalog), FALSE, 0)
      [] msg.tag = "Switch" ->
            IF new_differs(msg.arg, cur)
            THEN IF msg.arg # None
                 THEN IF in_catalog(msg.arg[1])
                      THEN switch_some(cur, snc, file, msg.arg[1], now, now2, disk)
                      ELSE Outcome(cur, snc, file, RespEmpty, FALSE, 0)
                 ELSE switch_none(cur, snc, file, now, now2, disk)
            ELSE Outcome(cur, snc, file, RespEmpty, FALSE, 0)
      [] msg.tag = "Status" ->
            Outcome(cur, snc, file, RespStatus(cur, now - snc), FALSE, now)

\* ------------------------------------------------------------------ the mutex
\* Mutex::lock returns once no other thread holds the mutex
CanLockAlways == TRUE
CanLock == lock = "free"

\* the guard is a temporary of the closure's tail expression: dropped when the
\* closure returns, before the response is written
GuardKept == "server"
GuardDropped == "free"

\* ------------------------------------------------------------- the main thread
\* main: TimeLog::init opens the file and appends the PowerOn line. When that write
\* fails, `?` returns the error and drops the TimeLog just built, whose Drop appends
\* a PowerOff line (disk2: whether that second write succeeds; its .unwrap() panics
\* when it does not); then .expect() panics main.
TimeLogInit(disk, disk2, now) ==
    /\ mpc = "init"
    /\ now \in Later
    /\ clock' = now
    /\ IF disk
       THEN /\ time_log' = TimeLog_log(time_log, PowerOn, now)
            /\ mpc' = "setup"
       ELSE /\ time_log' = IF disk2 THEN TimeLog_drop(time_log, now) ELSE time_log
            /\ mpc' = "panic"
    /\ UNCHANGED <<daemon, current, since, mutex, sthread, signals, sockFile, clients>>
    /\ UNCHANGED <<presence, started, stats, logtext, wire>>

\* Daemon::new and the set-up of Daemon::run: bind the socket, connect to the presence
\* daemon, register the signals, spawn the threads. When the bind or the connect
\* fails, run returns the error: self is dropped (the PowerOff line) and so is the
\* server (the socket file). The step is taken at one reading of the clock: since
\* and last_active start there, and nothing compares the two.
RunSetup(disk, now) ==
    /\ mpc = "setup"
    /\ now \in Later
    /\ clock' = now
    /\ \E ok \in BOOLEAN :
          IF ok
          THEN /\ mpc' = "recv"
               /\ spc' = "accept"
               /\ sockFile' = TRUE
               /\ since' = now
               /\ started' = now
               /\ last_active' = now
               /\ UNCHANGED <<time_log, daemon>>
          ELSE /\ mpc' = IF disk THEN "exitErr" ELSE "panic"
               /\ time_log' = IF disk THEN TimeLog_drop(time_log, now) ELSE time_log
               /\ daemon' = "None"
               /\ UNCHANGED <<spc, sockFile, since, last_active, started>>
    /\ UNCHANGED <<current, mutex, scur, req, rsp, signals, clients, pin, pmsg, stats, logtext, wire>>

\* rx.recv() returns once the signal thread has sent; then handle.close(). recv is
\* called this once: what else the channel holds is never received.
MainRecv ==
    /\ mpc = "recv"
    /\ chan
    /\ chan' = FALSE
    /\ sigClosed' = TRUE
    /\ mpc' = "lock"
    /\ UNCHANGED <<clock, dstate, mutex, sthread, sigs, sockFile, clients>>
    /\ UNCHANGED <<presence, started, stats, logtext, wire>>

\* daemon.lock().unwrap(): a poisoned mutex panics main. Only a panic of the server
\* thread poisons it before this point, and that panic dropped the thread's clone
\* of the Arc: unwinding main drops the last one, and with it the Daemon if it is
\* still there (the PowerOff line; a failing write there is a panic in a panic).
MainLock(disk, now) ==
    /\ mpc = "lock"
    /\ CanLock
    /\ now \in Later
    /\ IF poisoned
       THEN /\ clock' = IF daemon = "Some" THEN now ELSE clock
            /\ mpc' = IF daemon = "Some" /\ ~disk THEN "abort" ELSE "panic"
            /\ time_log' = IF daemon = "Some" /\ disk
                           THEN TimeLog_drop(time_log, now) ELSE time_log
            /\ daemon' = "None"
            /\ lock' = lock
       ELSE /\ mpc' = "take"
            /\ lock' = "main"
            /\ UNCHANGED <<clock, time_log, daemon>>
    /\ UNCHANGED <<current, since, poisoned, sthread, signals, sockFile,
                   clients>>
    /\ UNCHANGED <<presence, started, stats, logtext, wire>>

\* .take() and the drop of the Daemon it returns, then of the guard
MainTake(disk, now) ==
    /\ mpc = "take"
    /\ now \in Later
    /\ clock' = now
    /\ daemon' = "None"
    /\ IF disk
       THEN /\ time_log' = TimeLog_drop(time_log, now)
            /\ mpc' = "return"
            /\ lock' = "free"
            /\ poisoned' = poisoned
       ELSE /\ time_log' = time_log
            /\ mpc' = "panic"
            /\ lock' = "free"
            /\ poisoned' = TRUE
    /\ UNCHANGED <<current, since, sthread, signals, sockFile, clients>>
    /\ UNCHANGED <<presence, started, stats, logtext, wire>>

\* Ok(()) out of run and out of main: the process exits, its threads with it
MainReturn ==
    /\ mpc = "return"
    /\ mpc' = "exit0"
    /\ UNCHANGED <<clock, dstate, mutex, sthread, signals, sockFile, clients>>
    /\ UNCHANGED <<presence, started, stats, logtext, wire>>

\* ----------------------------------------------------------- the signal thread
\* for signal in signals.forever() { tx.send(()).unwrap() }
SignalThread ==
    /\ Running
    /\ ~sigClosed
    /\ sigs
    /\ sigs' = FALSE
    /\ chan' = TRUE
    /\ UNCHANGED <<clock, dstate, mutex, mpc, sthread, sigClosed, sockFile, clients>>
    /\ UNCHANGED <<presence, started, stats, logtext, wire>>

\* --------------------------------------------------------- the presence thread
\* The presence daemon writes a frame to the connection activity_client holds.
PresenceSend ==
    /\ mpc \in {"recv", "lock", "take", "return"}
    /\ pin < MaxPres
    /\ pin' = pin + 1
    /\ UNCHANGED <<clock, dstate, mutex, mpc, sthread, signals, sockFile, clients,
                   last_active, pmsg, started, stats, logtext, wire>>

\* activity_client.receive(closure) on the next frame: an empty message is skipped,
\* bytes that are no base64 make it return the error, anything else is handed to
\* the closure, which stores the current time whatever the message carries.
last_active_store(frame, now) == now

\* self.reader.read_until(EOT, ..) returns once a frame is there: the thread reads
\* its own connection, whatever the server thread is doing
PresenceReadyInline == pin > 0 /\ spc = "accept"
PresenceReady == pin > 0

PresenceReceive(frame, now) ==
    /\ mpc \in {"recv", "lock", "take", "return"}
    /\ PresenceReady
    /\ now \in Later
    /\ pin' = pin - 1
    /\ pmsg' = frame
    /\ IF frame.tag = "Activity"
       THEN /\ last_active' = last_active_store(frame, now)
            /\ clock' = now
       ELSE UNCHANGED <<last_active, clock>>
    /\ UNCHANGED <<dstate, mutex, mpc, sthread, signals, sockFile, clients, started,
                   stats, logtext, wire>>

PresFrames == {PresActivity(t) : t \in Times} \cup {PresEmpty, PresBadB64}

\* frames: what arrives on the presence socket, message by message (the bytes
\* actived itself writes are followed in handle_client_write and SocketClient_receive)
PresenceThread(frames) == \E frame \in frames, now \in Times : PresenceReceive(frame, now)

\* ----------------------------------------------------------- the server thread
\* a panic of the server thread unwinds its closure: the SocketServer is dropped
\* (the socket file is removed, the listener and the stream in hand are closed)
ServerPanics ==
    /\ spc' = "panicked"
    /\ sockFile' = FALSE
    /\ conn' = [c \in Clients |-> IF conn[c] = "open" THEN "closed" ELSE conn[c]]
    /\ backlog' = <<>>
    /\ scur' = NoClient

\* the stream of the connection in hand is dropped
CloseCurrent ==
    /\ conn' = [conn EXCEPT ![scur] = "closed"]
    /\ scur' = NoClient

\* SocketServer::handle: self.listener.accept()
ServerAccept ==
    /\ Running
    /\ spc = "accept"
    /\ backlog # <<>>
    /\ scur' = Head(backlog)
    /\ backlog' = Tail(backlog)
    /\ spc' = "read"
    /\ UNCHANGED <<clock, dstate, mutex, mpc, req, rsp, signals, sockFile, conn,
                   sent, nread, eof, resp>>
    /\ UNCHANGED <<presence, started, stats, logtext, wire>>

\* the next item of reader.split(EOT), its base64 decoding, and the closure's
\* rmp decoding. End of stream ends handle; bytes that are no base64 make it return
\* the error; both drop the stream. Bytes that are no message make the closure
\* return None without touching the daemon.
ServerRead ==
    /\ Running
    /\ spc = "read"
    /\ IF nread[scur] < Len(sent[scur])
       THEN LET frame == sent[scur][nread[scur] + 1] IN
            /\ nread' = [nread EXCEPT ![scur] = @ + 1]
            /\ IF ~B64DecodeOk(frame)
               THEN /\ spc' = "accept"
                    /\ CloseCurrent
                    /\ UNCHANGED <<req, rsp>>
               ELSE IF ~RmpDecodeOk(frame)
               THEN /\ spc' = "respond"
                    /\ rsp' = RespEmpty
                    /\ UNCHANGED <<req, scur, conn>>
               ELSE /\ spc' = "lock"
                    /\ req' = frame
                    /\ UNCHANGED <<rsp, scur, conn>>
       ELSE /\ eof[scur]
            /\ spc' = "accept"
            /\ CloseCurrent
            /\ UNCHANGED <<req, rsp, nread>>
    /\ UNCHANGED <<clock, dstate, mutex, mpc, signals, sockFile, backlog, sent,
                   eof, resp>>
    /\ UNCHANGED <<presence, started, stats, logtext, wire>>

\* daemon.lock().unwrap().as_mut().unwrap(): panics on a poisoned mutex and on a
\* Daemon that shutdown has taken (the guard is then dropped in the panic: poisoned)
ServerLock ==
    /\ Running
    /\ spc = "lock"
    /\ CanLock
    /\ IF poisoned \/ daemon = "None"
       THEN /\ ServerPanics
            /\ poisoned' = TRUE
            /\ lock' = lock
       ELSE /\ spc' = "handle"
            /\ lock' = "server"
            /\ UNCHANGED <<poisoned, sockFile, conn, backlog, scur>>
    /\ UNCHANGED <<clock, dstate, mpc, req, rsp, signals, sent, nread, eof, resp>>
    /\ UNCHANGED <<presence, started, stats, logtext, wire>>

\* handle_msg(msg) under the lock, and the closure's return, which drops the guard
ServerHandle(disk, now, now2) ==
    /\ Running
    /\ spc = "handle"
    /\ now \in Later
    /\ now2 \in now..MaxTime
    /\ LET r == handle_msg(current, since, time_log, req, now, now2, disk) IN
          /\ clock' = IF r.time > clock THEN r.time ELSE clock
          /\ IF r.panic
             THEN /\ ServerPanics
                  /\ poisoned' = TRUE
                  /\ lock' = "free"
                  /\ UNCHANGED <<time_log, current, since, rsp>>
             ELSE /\ current' = r.current
                  /\ since' = r.since
                  /\ time_log' = r.file
                  /\ rsp' = r.ret
                  /\ spc' = "respond"
                  /\ lock' = GuardDropped
                  /\ UNCHANGED <<poisoned, sockFile, conn, backlog, scur>>
    /\ UNCHANGED <<daemon, mpc, req, signals, sent, nread, eof, resp>>
    /\ UNCHANGED <<presence, started, stats, logtext, wire>>

\* stream.write_all(response + EOT); stream.flush(); then the next item of the loop.
\* Once the client is gone (Drop for SocketClient, then its socket is closed) the
\* write can fail: handle returns the error and drops the stream.
\* ok: whether the write succeeds.
WriteOutcomes(c) == IF eof[c] THEN BOOLEAN ELSE {TRUE}

ServerRespond(ok) ==
    /\ Running
    /\ spc = "respond"
    /\ ok \in WriteOutcomes(scur)
    /\ IF ok
       THEN /\ resp' = [resp EXCEPT ![scur] = Append(@, rsp)]
            /\ spc' = "read"
            /\ UNCHANGED <<scur, conn>>
       ELSE /\ spc' = "accept"
            /\ CloseCurrent
            /\ UNCHANGED resp
    /\ req' = NoReq
    /\ rsp' = RespEmpty
    /\ UNCHANGED <<clock, dstate, mutex, mpc, signals, sockFile, backlog, sent, nread,
                   eof>>
    /\ UNCHANGED <<presence, started, stats, logtext, wire>>

\* ------------------------------------------------------------ the environment
\* a client connects to the socket file while the listener is there
Connect(c) ==
    /\ Running
    /\ sockFile
    /\ conn[c] = "none"
    /\ conn' = [conn EXCEPT ![c] = "open"]
    /\ backlog' = Append(backlog, c)
    /\ UNCHANGED <<clock, dstate, mutex, mpc, sthread, signals, sockFile, sent,
                   nread, eof, resp>>
    /\ UNCHANGED <<presence, started, stats, logtext, wire>>

SentTotal == Len(sent["c1"]) + Len(sent["c2"])

\* a connected client writes one frame (accepted or not yet: the kernel buffers it)
Send(c, frame) ==
    /\ Running
    /\ conn[c] = "open"
    /\ ~eof[c]
    /\ SentTotal < MaxReq
    /\ sent' = [sent EXCEPT ![c] = Append(@, frame)]
    /\ UNCHANGED <<clock, dstate, mutex, mpc, sthread, signals, sockFile, backlog,
                   conn, nread, eof, resp>>
    /\ UNCHANGED <<presence, started, stats, logtext, wire>>

\* a connected client shuts down its writing half (Drop for SocketClient)
CloseWrite(c) ==
    /\ Running
    /\ conn[c] = "open"
    /\ ~eof[c]
    /\ eof' = [eof EXCEPT ![c] = TRUE]
    /\ UNCHANGED <<clock, dstate, mutex, mpc, sthread, signals, sockFile, backlog,
                   conn, sent, nread, resp>>
    /\ UNCHANGED <<presence, started, stats, logtext, wire>>

\* a termination signal is raised, once Signals::new has registered the handlers;
\* signals raised while one is pending are merged with it
Signal ==
    /\ mpc \in {"recv", "lock", "take", "return"}
    /\ ~sigClosed
    /\ sigs' = TRUE
    /\ UNCHANGED <<clock, dstate, mutex, mpc, sthread, chan, sigClosed, sockFile,
                   clients>>
    /\ UNCHANGED <<presence, started, stats, logtext, wire>>

\* The steps of the three threads. disk, disk2: the outcome of the writes the step
\* makes, to the log file or to a stream (TRUE: the write succeeds); now, now2: what
\* the clock shows when the step reads it.
Main(disk, disk2, now) ==
    \/ TimeLogInit(disk, disk2, now) \/ RunSetup(disk, now) \/ MainRecv
    \/ MainLock(disk, now) \/ MainTake(disk, now) \/ MainReturn

Server(disk, now, now2) ==
    \/ ServerAccept \/ ServerRead \/ ServerLock \/ ServerHandle(disk, now, now2)
    \/ ServerRespond(disk)

\* disks: the outcomes a write can have
MainThread(disks) == \E disk, disk2 \in disks, now \in Times : Main(disk, disk2, now)
ServerThread(disks) == \E disk \in disks, now, now2 \in Times : Server(disk, now, now2)

\* any peer of the socket: it writes any number of frames on its connection
Peer(c, frames) == Connect(c) \/ CloseWrite(c) \/ (\E f \in frames : Send(c, f))

\* the cli, `Client::connect().await?.run(args.cmd)`: one request on its connection
Cli(c) ==
    Connect(c) \/ CloseWrite(c) \/ (\E f \in IpcMessage : sent[c] = <<>> /\ Send(c, f))

\* Every behaviour of the command socket (the presence daemon sends nothing): peers
\* that write any frame, writes to the log file that fail.
Next ==
    \/ MainThread(BOOLEAN) \/ SignalThread \/ ServerThread(BOOLEAN)
    \/ (\E c \in Clients : Peer(c, Frames))
    \/ Signal

Spec == Init /\ [][Next]_vars

\* The behaviours of the daemon with one connection that carries any number of
\* Switch requests, the only requests that change the Daemon or the log.
SwitchFrames == {MsgSwitch(o) : o \in OptActivity}

SwitchNext ==
    \/ MainThread(BOOLEAN) \/ SignalThread \/ ServerThread(BOOLEAN)
    \/ Peer("c1", SwitchFrames)
    \/ Signal

SwitchSpec == Init /\ [][SwitchNext]_vars

\* The behaviours of the daemon with two runs of the cli as its clients.
CliNext ==
    \/ MainThread(BOOLEAN) \/ SignalThread \/ ServerThread(BOOLEAN)
    \/ (\E c \in Clients : Cli(c))
    \/ Signal

CliSpec == Init /\ [][CliNext]_vars

\* Those of them in which every write to the log file succeeds.
NextOk ==
    \/ MainThread({TRUE}) \/ SignalThread \/ ServerThread({TRUE})
    \/ (\E c \in Clients : Cli(c))
    \/ Signal

\* The operating system schedules every thread that can run; clients and signals
\* come as they please.
LiveSpec ==
    /\ Init
    /\ [][NextOk]_vars
    /\ WF_vars(MainThread({TRUE}))
    /\ WF_vars(SignalThread)
    /\ WF_vars(ServerThread({TRUE}))

\* a peer that writes one frame on its connection
Once(c, frames) ==
    Connect(c) \/ CloseWrite(c) \/ (\E f \in frames : sent[c] = <<>> /\ Send(c, f))

\* The behaviours of the daemon with two clients that each write one frame, of any
\* kind.
FrameNext ==
    \/ MainThread(BOOLEAN) \/ SignalThread \/ ServerThread(BOOLEAN)
    \/ (\E c \in Clients : Once(c, Frames))
    \/ Signal

FrameSpec == Init /\ [][FrameNext]_vars

\* The behaviours of the daemon with a presence daemon that writes any frame and no
\* client of the command socket: the server thread waits in accept().
StreamNext ==
    \/ MainThread(BOOLEAN) \/ SignalThread
    \/ PresenceThread(PresFrames) \/ PresenceSend
    \/ Signal

StreamSpec == Init /\ [][StreamNext]_vars

\* The behaviours with a presence daemon that sends messages (the closure never
\* reads what they carry) and one run of the cli, every write to the log file
\* succeeding, every thread scheduled fairly.
Heartbeat == PresenceThread({PresActivity(0)})

PresenceNext ==
    \/ MainThread({TRUE}) \/ SignalThread \/ ServerThread({TRUE})
    \/ Heartbeat \/ PresenceSend
    \/ Cli("c1")
    \/ Signal

PresenceSpec ==
    /\ Init
    /\ [][PresenceNext]_vars
    /\ WF_vars(MainThread({TRUE}))
    /\ WF_vars(SignalThread)
    /\ WF_vars(ServerThread({TRUE}))
    /\ WF_vars(Heartbeat)

\* ---------------------------------------------------------------------------
\* The Stats command of the cli: one pass over the events of the log
\* ---------------------------------------------------------------------------
\* `event.timestamp >= start && event.timestamp <= end`
in_window_always(ts, s, e) == TRUE
in_window(ts, s, e) == ts >= s /\ ts <= e

\* `totals.insert(prev_activity.clone(), duration)` in the place of the line below
credit_overwrite(tot, a, duration) ==
    [x \in DOMAIN tot \cup {a} |-> IF x = a THEN duration ELSE tot[x]]

\* `*totals.entry(prev_activity.clone()).or_insert(0) += duration`
credit(tot, a, duration) ==
    [x \in DOMAIN tot \cup {a} |->
        IF x = a THEN (IF a \in DOMAIN tot THEN tot[a] ELSE 0) + duration ELSE tot[x]]

\* one printed line: "{prev_time} - {event.timestamp}\t{prev_activity}\t{duration}"
Interval(from, to, a, duration) == [from |-> from, to |-> to, act |-> a, dur |-> duration]

\* the loop's variables
Loop(p, pt, tot, out) == [prev |-> p, prev_time |-> pt, totals |-> tot, printed |-> out]

\* Event::Power(state): `if !state { prev = None; prev_time = None; }`
power_off_keeps(st) == st
power_off(st) == Loop(None, None, st.totals, st.printed)

\* Event::SwitchActivity(activity): with both prev and prev_time set, print the
\* interval and credit its duration to prev; then remember this event
switch_event(st, ts, activity) ==
    IF st.prev # None /\ st.prev_time # None
    THEN LET duration == ts - st.prev_time[1] IN
         Loop(activity, Some(ts), credit(st.totals, st.prev[1], duration),
              Append(st.printed, Interval(st.prev_time[1], ts, st.prev[1], duration)))
    ELSE Loop(activity, Some(ts), st.totals, st.printed)

\* the body of `for event in events`, on the loop's variables st
stats_body(st, event, s, e) ==
    IF in_window(event.t, s, e)
    THEN IF event.ev.kind = "P"
         THEN IF ~event.ev.on THEN power_off(st) ELSE st
         ELSE switch_event(st, event.t, event.ev.act)
    ELSE st

\* the whole loop on the events evs, from the variables as lines 103-106 set them
RECURSIVE stats_loop(_, _, _)
stats_loop(evs, s, e) ==
    IF evs = <<>> THEN Loop(None, None, NoTotals, <<>>)
    ELSE stats_body(stats_loop(SubSeq(evs, 1, Len(evs) - 1), s, e), evs[Len(evs)], s, e)

\* the events a log holds: the daemon logs activities of its catalog only
LogEvents == {PowerOn, PowerOff} \cup {SwitchActivity(o) : o \in {None} \cup {Some(a) : a \in Catalog}}
Stamps == 0..MaxStamp
\* the windows the command is run with: today, from 00:00:00 to 23:59:59, with the
\* log reaching up to its edges or beyond them
Windows == {w \in {0, 1} \X {MaxStamp - 1, MaxStamp} : w[1] < w[2]}

\* ActivityRead::read yields the next event of the file and the loop body runs on
\* it. The daemon stamps its lines with a clock that never runs backwards.
StatsRead(event) ==
    /\ Len(events) < MaxEvents
    /\ events # <<>> => event.t >= events[Len(events)].t
    /\ events' = Append(events, event)
    /\ LET st == stats_body(Loop(prev, prev_time, totals, printed), event, start, end) IN
          /\ prev' = st.prev
          /\ prev_time' = st.prev_time
          /\ totals' = st.totals
          /\ printed' = st.printed
    /\ UNCHANGED <<start, end, clock, dstate, mutex, mpc, sthread, signals, sockFile,
                   clients, presence, started, logtext, wire>>

StatsInit ==
    /\ DaemonFresh
    /\ StatsFresh
    /\ TextFresh
    /\ WireFresh
    /\ \E w \in Windows : start = w[1] /\ end = w[2]

StatsNext == \E ts \in Stamps, ev \in LogEvents : StatsRead(Line(ts, ev))

StatsSpec == StatsInit /\ [][StatsNext]_vars

\* ---------------------------------------------------------------------------
\* The presence socket, byte by byte: actived's handle_client writes, the daemon's
\* SocketClient::receive reads
\* ---------------------------------------------------------------------------
\* const EOT: u8 = 4
EOT == 4

\* stream.write_u32(n): four bytes, big-endian
write_u32(n) == <<(n \div 16777216) % 256, (n \div 65536) % 256, (n \div 256) % 256, n % 256>>

\* MessagePack of an unsigned integer, in its shortest form
rmp_uint(n) ==
    IF n < 128 THEN <<n>>
    ELSE IF n < 256 THEN <<204, n>>
    ELSE <<205, (n \div 256) % 256, n % 256>>

\* rmp_serde::to_vec(&IpcMessage::Activity(timestamp)): a one-entry map from the
\* variant's name "Activity" to the timestamp
rmp_activity(timestamp) ==
    <<129, 168, 65, 99, 116, 105, 118, 105, 116, 121>> \o rmp_uint(timestamp)

\* the frame handle_client writes for a message: write_u32(msg.len()), write_all(&msg)
frame(msg) == write_u32(Len(msg)) \o msg

\* handle_client: the initial status or a broadcast timestamp is encoded and written
handle_client_write(timestamp) ==
    /\ ~hup
    /\ Len(written) < MaxFrames
    /\ LET msg == rmp_activity(timestamp) IN
          /\ stream' = stream \o frame(msg)
          /\ written' = Append(written, msg)
    /\ UNCHANGED <<handled, hup, clock, dstate, mutex, mpc, sthread, signals, sockFile,
                   clients, presence, started, stats, logtext>>

\* handle_client returns (the broadcast channel closed, or actived exits): the
\* stream is dropped
handle_client_return ==
    /\ ~hup
    /\ hup' = TRUE
    /\ UNCHANGED <<stream, written, handled, clock, dstate, mutex, mpc, sthread, signals,
                   sockFile, clients, presence, started, stats, logtext>>

\* the value of a character of the standard base64 alphabet, 64 for any other byte
b64_value(b) ==
    IF 65 <= b /\ b <= 90 THEN b - 65
    ELSE IF 97 <= b /\ b <= 122 THEN b - 71
    ELSE IF 48 <= b /\ b <= 57 THEN b + 4
    ELSE IF b = 43 THEN 62
    ELSE IF b = 47 THEN 63
    ELSE 64

\* the bytes of the groups of four characters, and of a last group of two or three
\* whose unused bits are zero
RECURSIVE b64_groups(_)
b64_groups(v) ==
    IF Len(v) = 0 THEN Ok(<<>>)
    ELSE IF Len(v) = 1 THEN Err
    ELSE IF Len(v) = 2
    THEN IF v[2] % 16 # 0 THEN Err ELSE Ok(<<v[1] * 4 + v[2] \div 16>>)
    ELSE IF Len(v) = 3
    THEN IF v[3] % 4 # 0 THEN Err
         ELSE Ok(<<v[1] * 4 + v[2] \div 16, (v[2] % 16) * 16 + v[3] \div 4>>)
    ELSE LET more == b64_groups(SubSeq(v, 5, Len(v)))
         IN  IF ~more.ok THEN Err
             ELSE Ok(<<v[1] * 4 + v[2] \div 16, (v[2] % 16) * 16 + v[3] \div 4,
                       (v[3] % 4) * 64 + v[4]>> \o more.val)

\* STANDARD_NO_PAD.decode(&message)
b64_decode(message) ==
    IF \E i \in 1..Len(message) : b64_value(message[i]) = 64 THEN Err
    ELSE b64_groups([i \in 1..Len(message) |-> b64_value(message[i])])

\* the place of the first EOT of the unread bytes, 0 when they hold none
find_eot(bytes) ==
    IF \E i \in 1..Len(bytes) : bytes[i] = EOT
    THEN CHOOSE i \in 1..Len(bytes) : bytes[i] = EOT /\ \A j \in 1..(i - 1) : bytes[j] # EOT
    ELSE 0

\* SocketClient::receive: read_until(EOT) returns the bytes up to the first EOT,
\* or at end of stream the bytes left; the last byte is popped; an empty message
\* is skipped, one that is no base64 is an error, any other is decoded and handed
\* to the closure. With no EOT and the stream open the call blocks; at end of
\* stream with nothing left it returns at once, leaving everything as it is.
SocketClient_receive ==
    /\ LET at == find_eot(stream)
           bytes_read == IF at # 0 THEN at ELSE Len(stream)
           message == SubSeq(stream, 1, bytes_read - 1)
           decoded == b64_decode(message)
       IN  /\ at # 0 \/ hup
           /\ bytes_read # 0
           /\ stream' = SubSeq(stream, bytes_read + 1, Len(stream))
           /\ IF message # <<>> /\ decoded.ok
              THEN handled' = Append(handled, decoded.val)
              ELSE handled' = handled
    /\ UNCHANGED <<written, hup, clock, dstate, mutex, mpc, sthread, signals, sockFile,
                   clients, presence, started, stats, logtext>>

WireNext ==
    \/ \E timestamp \in 0..MaxInput : handle_client_write(timestamp)
    \/ handle_client_return
    \/ SocketClient_receive

\* the presence thread loops on receive for as long as the process lives
WireSpec == Init /\ [][WireNext]_vars /\ WF_vars(SocketClient_receive)

\* ---------------------------------------------------------------------------
\* The time log as text: Display and FromStr of Event and TimedEvent (lib.rs)
\* ---------------------------------------------------------------------------
\* A string is a sequence of characters.

\* char::is_alphanumeric, on the characters the model writes
is_alphanumeric(c) == c \in {"a", "b", "n", "o", "f", "P", "A", "0", "1", "2", "3", "4",
                              "5", "6", "7", "8", "9"}

\* Activity::new: the key must be non-empty and made of alphanumerics, '_', '-', ':'
Activity_new(key) ==
    IF key = <<>> \/ ~(\A i \in 1..Len(key) : is_alphanumeric(key[i]) \/ key[i] \in {"_", "-", ":"})
    THEN Err
    ELSE Ok(key)

\* Display for Event: "P on", "P off", "A -", "A {activity}"
Event_fmt(ev) ==
    IF ev.kind = "P"
    THEN <<"P", " ">> \o (IF ev.on THEN <<"o", "n">> ELSE <<"o", "f", "f">>)
    ELSE <<"A", " ">> \o (IF ev.act # None THEN ev.act[1] ELSE <<"-">>)

\* the place of the first ' ' of s, 0 when it has none
find_space(s) ==
    IF \E i \in 1..Len(s) : s[i] = " "
    THEN CHOOSE i \in 1..Len(s) : s[i] = " " /\ \A j \in 1..(i - 1) : s[j] # " "
    ELSE 0

\* FromStr for Event, with "A -" read before Activity::new is tried
Event_from_str(s) ==
    LET sp == find_space(s)
        kind == SubSeq(s, 1, sp - 1)
        rest == SubSeq(s, sp + 1, Len(s))
    IN  IF sp = 0 THEN Err                          \* "missing event data"
        ELSE IF kind = <<"P">>
        THEN IF rest = <<"o", "n">> THEN Ok(Power(TRUE))
             ELSE IF rest = <<"o", "f", "f">> THEN Ok(Power(FALSE))
             ELSE Err                               \* "invalid power state"
        ELSE IF kind = <<"A">>
        THEN IF rest = <<"-">> THEN Ok(SwitchActivity(None))
             ELSE IF Activity_new(rest).ok THEN Ok(SwitchActivity(Some(rest)))
             ELSE Err                               \* "invalid activity"
        ELSE Err                                    \* "invalid event kind"

\* the decimal digits
Digit == <<"0", "1", "2", "3", "4", "5", "6", "7", "8", "9">>
digit_value(c) == CHOOSE d \in 0..9 : Digit[d + 1] = c
is_digit(c) == \E d \in 1..10 : Digit[d] = c

\* Display for i64
RECURSIVE fmt_nat(_)
fmt_nat(n) == IF n < 10 THEN <<Digit[n + 1]>> ELSE fmt_nat(n \div 10) \o <<Digit[(n % 10) + 1]>>
fmt_i64(n) == IF n < 0 THEN <<"-">> \o fmt_nat(0 - n) ELSE fmt_nat(n)

\* str::parse::<i64>: an optional sign and one or more digits
RECURSIVE digits_value(_)
digits_value(s) ==
    IF s = <<>> THEN 0 ELSE 10 * digits_value(SubSeq(s, 1, Len(s) - 1)) + digit_value(s[Len(s)])
parse_i64(s) ==
    LET signed == s # <<>> /\ s[1] \in {"+", "-"}
        digits == IF signed THEN Tail(s) ELSE s
    IN  IF digits = <<>> \/ \E i \in 1..Len(digits) : ~is_digit(digits[i]) THEN Err
        ELSE IF signed /\ s[1] = "-" THEN Ok(0 - digits_value(digits))
        ELSE Ok(digits_value(digits))

\* Display for TimedEvent: "{timestamp} {event}"
TimedEvent_fmt(te) == fmt_i64(te.t) \o <<" ">> \o Event_fmt(te.ev)

\* FromStr for TimedEvent: split_once(' '), the timestamp, then the event
TimedEvent_from_str(s) ==
    LET sp == find_space(s)
        timestamp == parse_i64(SubSeq(s, 1, sp - 1))
        event == Event_from_str(SubSeq(s, sp + 1, Len(s)))
    IN  IF sp = 0 THEN Err                          \* "invalid timed event format"
        ELSE IF ~timestamp.ok THEN Err              \* "failed to parse timestamp"
        ELSE IF ~event.ok THEN Err
        ELSE Ok(Line(timestamp.val, event.val))

\* `.filter_map(|l| l.parse().ok()).collect::<Vec<_>>()` in the place of the lines below
RECURSIVE collect_lenient(_)
collect_lenient(lines) ==
    IF lines = <<>> THEN Ok(<<>>)
    ELSE LET front == collect_lenient(SubSeq(lines, 1, Len(lines) - 1))
             last == TimedEvent_from_str(lines[Len(lines)])
         IN  IF ~last.ok THEN front ELSE Ok(Append(front.val, last.val))

\* ActivityRead::read: contents.lines().map(str::parse).collect::<Result<Vec<_>>>()
RECURSIVE collect(_)
collect(lines) ==
    IF lines = <<>> THEN Ok(<<>>)
    ELSE LET front == collect(SubSeq(lines, 1, Len(lines) - 1))
             last == TimedEvent_from_str(lines[Len(lines)])
         IN  IF ~front.ok \/ ~last.ok THEN Err ELSE Ok(Append(front.val, last.val))
ActivityRead_read(lines) == collect(lines)

\* identifiers Activity::new accepts, over each class of character it allows
Keys == {<<"a">>, <<"-">>, <<"a", "-">>, <<"-", "a">>, <<"_", "1">>, <<":">>}
\* the events of the four shapes, and the times they are stamped with
TextEvents == {PowerOn, PowerOff, SwitchActivity(None)} \cup {SwitchActivity(Some(k)) : k \in Keys}
TextStamps == {0, 12}
TimedEvents == {Line(t, ev) : t \in TextStamps, ev \in TextEvents}

\* lines no TimeLog::log call writes: empty, cut short, with an unknown kind or
\* power state, a timestamp that is no number, an identifier Activity::new
\* rejects, a doubled separator; and one with a signed timestamp
OddLines == {
    <<>>,
    <<"1", "2">>,
    <<"1", "2", " ">>,
    <<"1", "2", " ", "P">>,
    <<"1", "2", " ", "P", " ">>,
    <<"1", "2", " ", "P", " ", "u", "p">>,
    <<"1", "2", " ", "X", " ", "o", "n">>,
    <<"x", " ", "P", " ", "o", "n">>,
    <<"1", "2", " ", "A", " ">>,
    <<"1", "2", " ", "A", " ", "a", " ", "b">>,
    <<"1", "2", " ", "A", " ", "!">>,
    <<"1", "2", " ", " ", "P", " ", "o", "n">>,
    <<"+", "3", " ", "P", " ", "o", "n">> }

\* TimeLog::log: writeln!(self.file, "{timestamp} {event}")
TimeLog_writeln(te) ==
    /\ Len(log_lines) < MaxLines
    /\ log_lines' = Append(log_lines, TimedEvent_fmt(te))
    /\ log_events' = Append(log_events, Some(te))
    /\ UNCHANGED <<replay, clock, dstate, mutex, mpc, sthread, signals, sockFile, clients,
                   presence, started, stats, wire>>

\* a line that gets into the file some other way: an edit, a torn write
ForeignLine(l) ==
    /\ Len(log_lines) < MaxLines
    /\ log_lines' = Append(log_lines, l)
    /\ log_events' = Append(log_events, None)
    /\ UNCHANGED <<replay, clock, dstate, mutex, mpc, sthread, signals, sockFile, clients,
                   presence, started, stats, wire>>

\* the cli reads the file: ActivityRead::load()?.read()
Replay ==
    /\ replay' = Some(ActivityRead_read(log_lines))
    /\ UNCHANGED <<log_lines, log_events, clock, dstate, mutex, mpc, sthread, signals,
                   sockFile, clients, presence, started, stats, wire>>

TextNext ==
    \/ \E te \in TimedEvents : TimeLog_writeln(te)
    \/ \E l \in OddLines : ForeignLine(l)
    \/ Replay

TextSpec == Init /\ [][TextNext]_vars

\* ---------------------------------------------------------------------------
\* Helpers of the properties
\* ---------------------------------------------------------------------------
Last(seq) == seq[Len(seq)]

\* the step in which handle_msg ran to its end on the message in hand
Handled == spc = "handle" /\ spc' = "respond"

\* the server thread has just run handle_msg on msg and holds its response
JustHandled(msg) == spc = "respond" /\ req = msg

\* ----------------------------------------------------------------------- C1
\* C1: whenever handle_msg completes on Switch(Some(a)) with a in the catalog and a
\* not the current activity, the log has grown by exactly one line, SwitchActivity(Some(a))
\* stamped with a clock reading t made during the step, and the daemon is Tracking a
\* with `since` a reading of the clock made in the same step, not before t.
C1_SwitchToKnown ==
    [][ (/\ Handled
         /\ req.tag = "Switch"
         /\ req.arg # None
         /\ req.arg # current
         /\ req.arg[1] \in Catalog)
        => /\ \E t \in clock..clock' :
                /\ time_log' = Append(time_log, Line(t, SwitchActivity(req.arg)))
                /\ since' \in t..clock'
           /\ current' = req.arg ]_vars

\* a switch from Tracking "break" to "work" has just been handled
C1_Witness ==
    /\ JustHandled(MsgSwitch(Some("work")))
    /\ current = Some("work")
    /\ Len(time_log) = 3
    /\ time_log[2].ev = SwitchActivity(Some("break"))
    /\ time_log[3].ev = SwitchActivity(Some("work"))
    /\ since >= time_log[3].t

\* ----------------------------------------------------------------------- C2
\* C2: in the step that handles a Switch whose target is the current state
\* (Switch(Some(a)) while Tracking a, Switch(None) while Idle) the log, the current
\* activity and `since` do not change.
C2_SwitchToCurrent ==
    [][ (/\ spc = "handle"
         /\ spc' # "handle"
         /\ req.tag = "Switch"
         /\ req.arg = current)
        => /\ spc' = "respond"
           /\ UNCHANGED <<time_log, current, since>> ]_vars

\* one connection asked twice for "work": the second request found it current and the
\* log holds the PowerOn line and one switch line only
C2_Witness ==
    /\ JustHandled(MsgSwitch(Some("work")))
    /\ scur \in Clients
    /\ sent[scur] = <<MsgSwitch(Some("work")), MsgSwitch(Some("work"))>>
    /\ nread[scur] = 2
    /\ Len(resp[scur]) = 1
    /\ current = Some("work")
    /\ Len(time_log) = 2

\* ----------------------------------------------------------------------- C3
\* the response handle_msg gives to a switch that changes nothing
NoOpResponse == handle_msg(current, since, time_log, MsgSwitch(current), 0, 0, TRUE).ret

\* no line of the log switches to an activity outside the catalog
OnlyCatalogLogged ==
    \A i \in 1..Len(time_log) :
        time_log[i].ev.kind = "A" =>
            time_log[i].ev.act \in {None} \cup {Some(a) : a \in Catalog}

\* C3: the step that handles Switch(Some(a)) with a outside the catalog leaves the log,
\* the current activity and `since` as they are and returns what a no-op switch
\* returns; and after every step no line of the log names an activity outside the
\* catalog.
C3_SwitchToUnknown ==
    [][ /\ (/\ spc = "handle"
            /\ spc' # "handle"
            /\ req.tag = "Switch"
            /\ req.arg # None
            /\ req.arg[1] \notin Catalog)
           => /\ spc' = "respond"
              /\ UNCHANGED <<time_log, current, since>>
              /\ rsp' = NoOpResponse
        /\ OnlyCatalogLogged' ]_vars

\* while Tracking "work", a switch to "nap" has just been handled
C3_Witness ==
    /\ JustHandled(MsgSwitch(Some("nap")))
    /\ current = Some("work")
    /\ Len(time_log) = 2
    /\ rsp = RespEmpty

\* ----------------------------------------------------------------------- C4
\* C4: whenever handle_msg completes on Switch(None) while the daemon tracks an
\* activity, the log has grown by exactly one line, SwitchActivity(None), and the
\* daemon is Idle.
C4_SwitchToNone ==
    [][ (/\ Handled
         /\ req = MsgSwitch(None)
         /\ current # None)
        => /\ \E t \in clock..clock' :
                time_log' = Append(time_log, Line(t, SwitchActivity(None)))
           /\ current' = None ]_vars

\* Tracking "work", then Switch(None) has just been handled
C4_Witness ==
    /\ JustHandled(MsgSwitch(None))
    /\ current = None
    /\ Len(time_log) = 3
    /\ time_log[2].ev = SwitchActivity(Some("work"))
    /\ time_log[3].ev = SwitchActivity(None)

\* ----------------------------------------------------------------------- C5
\* the events of the switch lines of the log, in order
IsSwitchLine(l) == l.ev.kind = "A"
SwitchRecords ==
    LET sel == SelectSeq(time_log, IsSwitchLine)
    IN  [i \in 1..Len(sel) |-> sel[i].ev]

\* every line of the log is one whole record: a clock reading and one event
Events == {PowerOn, PowerOff} \cup {SwitchActivity(o) : o \in OptActivity}
WholeLines == \A i \in 1..Len(time_log) : time_log[i] \in [t : Times, ev : Events]

\* One Switch processed alone, on st = <<current activity, switch records>>: a target
\* that is the current one or is outside the catalog changes nothing, any other is
\* recorded and becomes current.
SwitchAlone(st, o) ==
    IF o = st[1] \/ o \notin {None} \cup {Some(a) : a \in Catalog}
    THEN st
    ELSE <<o, Append(st[2], SwitchActivity(o))>>

Fresh == <<None, <<>>>>

\* C5: when two clients have each sent one Switch and both were answered, the current
\* activity and the switch records are those of processing the two requests one after
\* the other in one of the two orders, and every line of the log is a whole record.
C5_TwoSwitchesSerial ==
    \A x, y \in OptActivity :
        (/\ sent["c1"] = <<MsgSwitch(x)>>
         /\ sent["c2"] = <<MsgSwitch(y)>>
         /\ Len(resp["c1"]) = 1
         /\ Len(resp["c2"]) = 1
         /\ daemon = "Some")
        => /\ <<current, SwitchRecords>> \in
                 {SwitchAlone(SwitchAlone(Fresh, x), y),
                  SwitchAlone(SwitchAlone(Fresh, y), x)}
           /\ WholeLines

\* both clients asked for "work" and were answered: one of the two switches was a
\* no-op, the log holds a single switch line
C5_Witness ==
    /\ sent["c1"] = <<MsgSwitch(Some("work"))>>
    /\ sent["c2"] = <<MsgSwitch(Some("work"))>>
    /\ resp["c1"] = <<RespEmpty>>
    /\ resp["c2"] = <<RespEmpty>>
    /\ daemon = "Some"
    /\ current = Some("work")
    /\ Len(time_log) = 2

\* ----------------------------------------------------------------------- C6
\* C6: the lines of a run are one PowerOn first, written before the server thread
\* exists, then switch lines only, then at most one PowerOff, which nothing follows;
\* and a run that exited cleanly ends with its PowerOff.
C6_RunShape ==
    /\ time_log # <<>> => time_log[1].ev = PowerOn
    /\ spc # "none" => time_log # <<>>
    /\ \A i \in 2..Len(time_log) : time_log[i].ev # PowerOn
    /\ \A i \in 1..Len(time_log) : time_log[i].ev = PowerOff => i = Len(time_log)
    /\ mpc = "exit0" => time_log # <<>> /\ Last(time_log).ev = PowerOff

\* ----------------------------------------------------------------------- C7
\* the process has exited cleanly, the Daemon released and the PowerOff line written
CleanExit ==
    /\ mpc = "exit0"
    /\ daemon = "None"
    /\ time_log # <<>>
    /\ Last(time_log).ev = PowerOff

\* C7: once a termination signal has been raised, the daemon eventually releases the
\* Daemon, appends the PowerOff line and exits.
C7_SignalShutsDown == sigs ~> CleanExit

\* a clean exit after a signal while one client was mid-request (its message decoded,
\* the lock not yet taken) and another was waiting to be accepted
C7_Witness ==
    /\ CleanExit
    /\ sigClosed
    /\ spc = "lock"
    /\ backlog # <<>>

\* ----------------------------------------------------------------------- C8
\* the server thread panicked on a failed append in handle_msg: the only panic of that
\* thread that leaves the Daemon in the mutex
AppendFailed == spc = "panicked" /\ daemon = "Some"

\* C8: after a failed append in handle_msg the process is not running any more.
C8_AppendFailureIsFatal == AppendFailed => ~Running

\* ----------------------------------------------------------------------- C9
\* C9: on every connection, once a response has been written no second request is
\* read and no second response is written.
C9_OneExchange ==
    \A c \in Clients : resp[c] # <<>> => nread[c] <= 1 /\ Len(resp[c]) <= 1

\* ---------------------------------------------------------------------- C10
\* C10: a client that has written a request is eventually answered, as long as the
\* daemon runs, whatever the other connections do.
C10_EveryRequestAnswered ==
    \A c \in Clients :
        (sent[c] # <<>> /\ B64DecodeOk(sent[c][1]))
            ~> (resp[c] # <<>> \/ ~Running \/ spc = "panicked")

\* ---------------------------------------------------------------------- C11
\* the server thread is blocked reading the stream of a connected client that has
\* nothing more to say and has not closed
SilentClient ==
    /\ spc = "read"
    /\ nread[scur] = Len(sent[scur])
    /\ ~eof[scur]

\* C11: while a connected client keeps the server thread waiting, a raised signal
\* still leads to the clean exit; and while the process runs with the client silent
\* for ever and presence frames waiting, the presence thread reads frames again and
\* again.
C11_SilentClientStarvesNothing ==
    /\ (SilentClient /\ sigs) ~> CleanExit
    /\ \/ []<>(~SilentClient \/ pin = 0 \/ ~Running)
       \/ []<><<Heartbeat>>_vars

\* the daemon exited cleanly with the server thread still waiting for the first frame
\* of c1, after the presence thread stored last_active on a message
C11_Witness ==
    /\ CleanExit
    /\ SilentClient
    /\ scur = "c1"
    /\ sent["c1"] = <<>>
    /\ pmsg.tag = "Activity"
    /\ pin = 0

\* ---------------------------------------------------------------------- C12
\* the frame the server thread reads next from the connection in hand
NextFrame == sent[scur][nread[scur] + 1]

\* a step in which the handling of the connection in hand fails: the frame read is
\* no base64 or no message, or the write of the response fails
ReadsBadFrame ==
    /\ spc = "read"
    /\ nread' # nread
    /\ NextFrame \notin IpcMessage
WriteFails ==
    /\ spc = "respond"
    /\ spc' = "accept"
ConnFailure == ReadsBadFrame \/ WriteFails

C13_BrokenExchangeCloses ==
    [][ /\ ReadsBadFrame
           => /\ spc' = "accept"
              /\ conn' = [conn EXCEPT ![scur] = "closed"]
        /\ resp' # resp => req # NoReq ]_vars

\* ---------------------------------------------------------------------- C14
\* C14: when the daemon has exited after a termination signal the socket file is
\* gone, and while the Daemon is not yet released the socket file is still there.
C14_SocketFileRemoved ==
    /\ mpc = "exit0" => ~sockFile
    /\ (mpc \in {"recv", "lock", "take"} /\ daemon = "Some" /\ spc # "panicked") => sockFile

\* ---------------------------------------------------------------------- C15
\* C15: the step in which the presence thread reads a message carrying
\* last_active = t leaves t in last_active.
C15_LatestPresenceStored ==
    [][ (pin' < pin /\ pmsg'.tag = "Activity") => last_active' = pmsg'.t ]_vars

\* ---------------------------------------------------------------------- C16
\* C16: the step that handles a Status or a List request cannot panic and leaves the
\* log, the Daemon, its current activity, its start time and last_active as they
\* are; List is answered with exactly the catalog.
C16_ReadsArePure ==
    [][ (/\ spc = "handle"
         /\ spc' # "handle"
         /\ req.tag \in {"Status", "List"})
        => /\ spc' = "respond"
           /\ UNCHANGED <<time_log, daemon, current, since, last_active>>
           /\ req.tag = "List" => rsp' = RespList(Catalog) ]_vars

\* Tracking "work" since 0, a Status has just been handled at time 1: the answer is
\* in hand and since is still 0
C16_Witness ==
    /\ JustHandled(MsgStatus)
    /\ current = Some("work")
    /\ since = 0
    /\ rsp = RespStatus(Some("work"), 1)
    /\ Len(time_log) = 2

\* ---------------------------------------------------------------------- C17
\* what handle_msg answers to a Status handled now on the daemon as it is
StatusAnswer(now) == handle_msg(current, since, time_log, MsgStatus, now, now, TRUE).ret

\* when the current state began: the activity's start when Tracking, the daemon's
\* start when Idle
Began == IF current = None THEN started ELSE since

\* C17: whenever the Daemon is there and no request is being handled, a Status
\* handled at any later time is answered with the current activity and the time
\* elapsed since it began when Tracking, since the daemon started when Idle.
C17_StatusElapsed ==
    (mpc \in {"recv", "lock"} /\ daemon = "Some" /\ lock = "free")
        => \A now \in Later : StatusAnswer(now) = RespStatus(current, now - Began)

\* ---------------------------------------------------------------------- C18
\* the event the loop runs on in this step
ThisEvent == events'[Len(events')]

\* the sum of the durations of the printed intervals of activity a
RECURSIVE SumOf(_, _)
SumOf(out, a) ==
    IF out = <<>> THEN 0
    ELSE SumOf(Tail(out), a) + (IF Head(out).act = a THEN Head(out).dur ELSE 0)

IntervalsOf(out) == {out[i] : i \in 1..Len(out)}

\* the totals are, for exactly the activities of the printed intervals, the sums of
\* their durations
TotalsAreSums(tot, out) ==
    /\ DOMAIN tot = {iv.act : iv \in IntervalsOf(out)}
    /\ \A a \in DOMAIN tot : tot[a] = SumOf(out, a)

\* C18: in every step of the loop one interval is printed exactly when the event is
\* an in-window SwitchActivity and a previous activity and time are set, the
\* interval runs from the previous time to the event's, is credited to the previous
\* activity and lasts their difference; and the totals are the sums of the printed
\* intervals.
C18_IntervalPerClosingSwitch ==
    [][ /\ IF /\ ThisEvent.t >= start /\ ThisEvent.t <= end
              /\ ThisEvent.ev.kind = "A"
              /\ prev # None /\ prev_time # None
           THEN printed' = Append(printed, Interval(prev_time[1], ThisEvent.t, prev[1],
                                                    ThisEvent.t - prev_time[1]))
           ELSE printed' = printed
        /\ TotalsAreSums(totals', printed') ]_vars

\* the log 0 P on, 1 A work, 2 A break, 3 P off read with the window 0..3: one
\* interval, (1, 2, work, 1), and work totals 1
C18_Witness ==
    /\ start = 0
    /\ end = 3
    /\ events = <<Line(0, PowerOn), Line(1, SwitchActivity(Some("work"))),
                  Line(2, SwitchActivity(Some("break"))), Line(3, PowerOff)>>
    /\ printed = <<Interval(1, 2, "work", 1)>>
    /\ totals = [a \in {"work"} |-> 1]

\* ---------------------------------------------------------------------- C19
\* events i and j of the log open and close the interval iv, with no PowerOff record
\* between them
OpensAndCloses(i, j, iv) ==
    /\ i < j
    /\ events[i] = Line(iv.from, SwitchActivity(Some(iv.act)))
    /\ events[j].ev.kind = "A"
    /\ events[j].t = iv.to
    /\ \A k \in (i + 1)..(j - 1) : events[k].ev # PowerOff

\* C19: right after an in-window PowerOff no previous activity or time is kept, and
\* every printed interval is opened and closed by two switch events of the log with
\* no PowerOff record between them.
C19_NoIntervalAcrossPowerOff ==
    /\ (/\ events # <<>>
        /\ events[Len(events)].ev = PowerOff
        /\ in_window(events[Len(events)].t, start, end))
           => (prev = None /\ prev_time = None)
    /\ \A iv \in IntervalsOf(printed) :
          \E i, j \in 1..Len(events) : OpensAndCloses(i, j, iv)

\* the log 0 A work, 1 P off, 2 A work, 3 A break read with the window 0..3: the one
\* interval is (2, 3, work, 1); the work before the power-off is credited nothing
C19_Witness ==
    /\ start = 0
    /\ end = 3
    /\ events = <<Line(0, SwitchActivity(Some("work"))), Line(1, PowerOff),
                  Line(2, SwitchActivity(Some("work"))), Line(3, SwitchActivity(Some("break")))>>
    /\ printed = <<Interval(2, 3, "work", 1)>>
    /\ totals = [a \in {"work"} |-> 1]
    /\ prev = Some("break")

\* ---------------------------------------------------------------------- C20
\* the log with the events stamped outside start..end removed
Inside(event) == start <= event.t /\ event.t <= end
EventsInside == SelectSeq(events, Inside)

\* C20: what the command has printed and totalled after reading a log is what it
\* prints and totals on the same log without its out-of-window events, and every
\* printed interval starts and ends inside the window.
C20_OutsideEventsIgnored ==
    /\ Loop(prev, prev_time, totals, printed) = stats_loop(EventsInside, start, end)
    /\ \A iv \in IntervalsOf(printed) : start <= iv.from /\ iv.from <= iv.to /\ iv.to <= end

\* the log 0 A work, 1 A break, 2 A work, 3 A break read with the window 1..2: work
\* was running when the window opened and is credited nothing for it, and the
\* switch at 3 closes nothing; the one interval is (1, 2, break, 1)
C20_Witness ==
    /\ start = 1
    /\ end = 2
    /\ events = <<Line(0, SwitchActivity(Some("work"))), Line(1, SwitchActivity(Some("break"))),
                  Line(2, SwitchActivity(Some("work"))), Line(3, SwitchActivity(Some("break")))>>
    /\ printed = <<Interval(1, 2, "break", 1)>>
    /\ totals = [a \in {"break"} |-> 1]
    /\ prev = Some("work")
    /\ prev_time = Some(2)

\* ---------------------------------------------------------------------- C21
\* C21: every line TimeLog::log wrote from an event of the four shapes, its
\* identifier one Activity::new accepts, parses back to an equal event.
C21_EventRoundTrip ==
    \A i \in 1..Len(log_lines) :
        log_events[i] # None => TimedEvent_from_str(log_lines[i]) = Ok(log_events[i][1])

\* ---------------------------------------------------------------------- C22
\* the text of an integer: an optional sign, then one or more digits
IsIntText(s) ==
    LET body == IF s # <<>> /\ s[1] \in {"+", "-"} THEN Tail(s) ELSE s
    IN  /\ body # <<>>
        /\ \A i \in 1..Len(body) : body[i] \in {"0", "1", "2", "3", "4", "5", "6", "7", "8", "9"}

\* the texts of the four event shapes
EventTexts == {Event_fmt(ev) : ev \in TextEvents}

\* a line of the format "<timestamp> <tag> <payload>"
WellFormedLine(l) ==
    \E i \in 1..Len(l) :
        /\ l[i] = " "
        /\ \A j \in 1..(i - 1) : l[j] # " "
        /\ IsIntText(SubSeq(l, 1, i - 1))
        /\ SubSeq(l, i + 1, Len(l)) \in EventTexts

\* the line as Display writes it: without the '+' a timestamp may be written with
Canonical(l) == IF l # <<>> /\ l[1] = "+" THEN Tail(l) ELSE l

\* C22: reading a file with a malformed line returns an error and no events;
\* reading a file of well-formed lines returns one event per line, in file order,
\* each the event its line is the text of.
C22_ReplayAllOrNothing ==
    [][ UNCHANGED log_lines =>
          IF \E i \in 1..Len(log_lines) : ~WellFormedLine(log_lines[i])
          THEN replay' = Some(Err)
          ELSE /\ replay'[1].ok
               /\ Len(replay'[1].val) = Len(log_lines)
               /\ \A i \in 1..Len(log_lines) :
                     TimedEvent_fmt(replay'[1].val[i]) = Canonical(log_lines[i]) ]_vars

\* a file whose first line is well-formed and whose second is cut short was read:
\* an error, not the first event
C22_Witness ==
    /\ log_lines = <<TimedEvent_fmt(Line(0, PowerOn)), <<"1", "2", " ", "P">>>>
    /\ replay = Some(Err)

\* ---------------------------------------------------------------------- C23
\* C23: the messages handed to the daemon's closure are the payloads actived
\* wrote, in order and each once, and every frame written is eventually handed over.
C23_FramingAgrees ==
    /\ [](/\ Len(handled) <= Len(written)
          /\ \A i \in 1..Len(handled) : handled[i] = written[i])
    /\ \A n \in 1..MaxFrames : (Len(written) >= n) ~> (Len(handled) >= n)

\* ---------------------------------------------------------------------- C24
\* the Daemon is behind the mutex: run has wrapped it in Arc<Mutex<Option<_>>>
Shared == mpc \notin {"init", "setup"}

\* the server thread is in SocketServer::handle outside its closure: in accept(),
\* reading the next request from the stream, or writing the response
AtSocket == spc \in {"accept", "read", "respond"}

\* a step that reads or writes the Daemon: handle_msg, the take() of shutdown, or
\* any step that changes the log, the Option, current or since
TouchesDaemon ==
    \/ spc = "handle" /\ spc' # spc
    \/ mpc = "take" /\ mpc' # mpc
    \/ dstate' # dstate

\* main's lock().unwrap() panics on the poisoned mutex: the server thread is gone,
\* main's Arc is the last one, and unwinding drops the Daemon it owns alone
UnwindDrop == mpc = "lock" /\ mpc' \in {"panic", "abort"} /\ poisoned /\ spc = "panicked"

ReplayCurrent(log) ==
    IF log = <<>> THEN None
    ELSE IF log[Len(log)].ev.kind = "A" THEN log[Len(log)].ev.act
    ELSE None

\* C25: while the Daemon is behind the mutex, not taken by shutdown, and no
\* request is inside the critical section, its current activity is the one a
\* replay of the records of this run arrives at.
C25_CurrentMatchesLog ==
    (Shared /\ daemon = "Some" /\ lock # "server") => current = ReplayCurrent(time_log)

\* two requests were served: a switch to work, then a switch to none
C25_Witness ==
    /\ Len(time_log) = 3
    /\ time_log[2].ev = SwitchActivity(Some("work"))
    /\ time_log[3].ev = SwitchActivity(None)
    /\ current = None
    /\ daemon = "Some"
    /\ lock = "free"
    /\ spc = "respond"

\* ---------------------------------------------------------------------- C26
\* C26: once shutdown has taken the Daemon out of the mutex, no step panics the
\* server thread and no step writes to the log.
C26_NoUseAfterRelease ==
    [][ daemon = "None" => /\ (spc' = "panicked" => spc = "panicked")
                           /\ time_log' = time_log ]_vars

====
